---- MODULE Spec2Model ----
(***************************************************************************)
(* Midjourney Discord Bridge (src/app.py): the Flask handlers              *)
(* generate_image and check_status, the background coroutine               *)
(* process_generation_request (send_imagine_command, then                  *)
(* wait_for_response) and the two task dictionaries they share.            *)
(*                                                                         *)
(* Threads.  The Flask handlers run on the HTTP thread; every coroutine    *)
(* runs on the Discord event loop thread.  Coroutines interleave with each *)
(* other only at an await; the HTTP thread interleaves with them at every  *)
(* dictionary access.                                                      *)
(*                                                                         *)
(* Text.  A Python str is a tuple of one-character strings, so that        *)
(* lower(), split() and the substring test `in` are computed.              *)
(***************************************************************************)
EXTENDS Integers, Sequences, FiniteSets, TLC

(***************************************************************************)
(* Bounds of the model                                                     *)
(***************************************************************************)
\* POST /generate requests that reach run_async_in_thread
MaxRequests == 2
\* messages posted in the channel by other users
MaxPosts == 1
\* minutes per step of the clock
TickMinutes == 5

(***************************************************************************)
(* Program constants                                                       *)
(***************************************************************************)
MAX_WAIT_MINUTES == 10
HISTORY_LIMIT == 20
PROMPT_WORDS_LIMIT == 5
MIN_MATCHES == 2
\* 936929561302675456 does not fit TLC's integers: kept as text
MIDJOURNEY_USER_ID == "936929561302675456"
BOT_USER_ID == "2002"
IMAGE_EXTENSIONS ==
    << <<".", "p", "n", "g">>, <<".", "j", "p", "g">>,
       <<".", "j", "p", "e", "g">>, <<".", "w", "e", "b", "p">> >>

(***************************************************************************)
(* Python str operations                                                   *)
(***************************************************************************)
UpperCase == <<"A","B","C","D","E","F","G","H","I","J","K","L","M",
               "N","O","P","Q","R","S","T","U","V","W","X","Y","Z">>
LowerCase == <<"a","b","c","d","e","f","g","h","i","j","k","l","m",
               "n","o","p","q","r","s","t","u","v","w","x","y","z">>
WhiteSpace == {" "}

\* str.lower() on one character
LowerChar(c) ==
    IF \E k \in DOMAIN UpperCase : UpperCase[k] = c
    THEN LowerCase[CHOOSE k \in DOMAIN UpperCase : UpperCase[k] = c]
    ELSE c

\* str.lower()
Lower(s) == [k \in DOMAIN s |-> LowerChar(s[k])]

\* seq[:n]
Take(s, n) == IF Len(s) <= n THEN s ELSE SubSeq(s, 1, n)

\* `w in s` for two strs
IsSubstring(w, s) ==
    \E k \in 0 .. (Len(s) - Len(w)) : SubSeq(s, k + 1, k + Len(w)) = w

RECURSIVE SplitFrom(_, _, _)
\* str.split() from position k on, cur being the word read so far
SplitFrom(s, k, cur) ==
    IF k > Len(s)
    THEN IF cur = <<>> THEN <<>> ELSE <<cur>>
    ELSE IF s[k] \in WhiteSpace
         THEN IF cur = <<>>
              THEN SplitFrom(s, k + 1, <<>>)
              ELSE <<cur>> \o SplitFrom(s, k + 1, <<>>)
         ELSE SplitFrom(s, k + 1, Append(cur, s[k]))

\* str.split(): the words between runs of whitespace
Split(s) == SplitFrom(s, 1, <<>>)

(***************************************************************************)
(* Request bodies and channel messages the model draws its inputs from     *)
(***************************************************************************)
\* the task_id of line 407: supplied by the caller or built from the time
TaskIds == {"t1", "t2"}

\* a JSON value under "prompt": absent, a string, or a number
NoPrompt == [kind |-> "none", text |-> <<>>]
EmptyPrompt == [kind |-> "str", text |-> <<>>]
FoxPrompt == [kind |-> "str", text |-> <<"R","e","d"," ","F","o","x">>]
NumPrompt == [kind |-> "num", text |-> <<"7">>]
Prompts == {NoPrompt, EmptyPrompt, FoxPrompt, NumPrompt}

\* `not prompt` of line 409 (a JSON number other than 0 is truthy)
Falsy(prompt) == prompt.kind = "none" \/ (prompt.kind = "str" /\ prompt.text = <<>>)

\* what other users post: author, content, attachment file names
FoxGrid ==
    [author |-> MIDJOURNEY_USER_ID,
     content |-> <<"R","e","d"," ","F","o","x"," ","d","o","n","e">>,
     files |-> << <<"g","r","i","d",".","P","N","G">> >>]
FoxLog ==
    [author |-> MIDJOURNEY_USER_ID,
     content |-> <<"r","e","d"," ","f","o","x">>,
     files |-> << <<"l","o","g",".","t","x","t">> >>]
Posts == {FoxGrid, FoxLog}

\* further prompts and posts, for the watcher's match decision
CatPrompt == [kind |-> "str", text |-> <<"c","a","t">>]
WhalePrompt ==
    [kind |-> "str",
     text |-> <<"b","l","u","e"," ","w","h","a","l","e"," ","s","o","n","g">>]
MatchPrompts == {CatPrompt, FoxPrompt, WhalePrompt}

CatGrid ==
    [author |-> MIDJOURNEY_USER_ID, content |-> <<"c","a","t">>,
     files |-> << <<"c",".","j","p","g">> >>]
FoxFake ==
    [author |-> MIDJOURNEY_USER_ID, content |-> <<"r","e","d"," ","f","o","x">>,
     files |-> << <<"a",".","p","n","g",".","t","x","t">> >>]
FoxMixed ==
    [author |-> MIDJOURNEY_USER_ID, content |-> <<"r","e","d"," ","f","o","x">>,
     files |-> << <<"n",".","t","x","t">>, <<"f",".","w","e","b","p">> >>]
FoxStranger ==
    [author |-> "3003", content |-> <<"r","e","d"," ","f","o","x">>,
     files |-> << <<"f",".","p","n","g">> >>]
WhaleGrid ==
    [author |-> MIDJOURNEY_USER_ID,
     content |-> <<"B","l","u","e","w","h","a","l","e">>,
     files |-> << <<"w",".","j","p","e","g">> >>]
WhaleText ==
    [author |-> MIDJOURNEY_USER_ID,
     content |-> <<"b","l","u","e"," ","w","h","a","l","e">>, files |-> <<>>]
MatchPosts ==
    {FoxGrid, FoxLog, CatGrid, FoxFake, FoxMixed, FoxStranger, WhaleGrid, WhaleText}

\* the message object Discord makes of a post, the n-th of the channel
Message(n, post) ==
    [id |-> n, author |-> post.author, content |-> post.content,
     attachments |-> [k \in DOMAIN post.files |->
                        [filename |-> post.files[k], url |-> <<n, k>>]]]

\* the message channel.send(text) creates
BotMessage(n, text) ==
    [id |-> n, author |-> BOT_USER_ID, content |-> text,
     attachments |-> <<>>]

\* line 251: the text before the prompt
ImagineText == <<"/","i","m","a","g","i","n","e"," ">>

\* line 245: the text before the prompt (imagine_command is None on this path)
SlashText ==
    <<"<","/","i","m","a","g","i","n","e",":","9","3","8",
      "9","5","6","5","4","0","1","5","9","8","8","1","2",
      "3","0",":","1","1","6","6","8","4","7","1","1","4",
      "2","0","3","1","2","3","7","9","5",">"," ">>

(***************************************************************************)
(* wait_for_response: the pure parts                                       *)
(***************************************************************************)
\* line 261: task_info['prompt'].lower().split()[:5]
PromptWords(prompt) == Take(Split(Lower(prompt.text)), PROMPT_WORDS_LIMIT)

\* line 282: sum(1 for word in prompt_words if word in message_content)
Matches(words, content) ==
    Cardinality({k \in DOMAIN words : IsSubstring(words[k], Lower(content))})

\* line 289: any(ext in attachment.filename.lower() for ext in [...])
IsImage(filename) ==
    \E k \in DOMAIN IMAGE_EXTENSIONS :
        IsSubstring(IMAGE_EXTENSIONS[k], Lower(filename))

RECURSIVE UrlsFrom(_, _)
\* lines 287-290: the urls of the image attachments, in order, from k on
UrlsFrom(atts, k) ==
    IF k > Len(atts) THEN <<>>
    ELSE IF IsImage(atts[k].filename)
         THEN <<atts[k].url>> \o UrlsFrom(atts, k + 1)
         ELSE UrlsFrom(atts, k + 1)

ImageUrls(m) == UrlsFrom(m.attachments, 1)

\* lines 274-292 of a program without the "if image_urls:" of line 292
Accepts_AnyAttachment(words, m) ==
    /\ m.author = MIDJOURNEY_USER_ID
    /\ m.attachments # <<>>
    /\ Matches(words, m.content) >= MIN_MATCHES

\* lines 275-292: the message passes every test of the scan
Accepts(words, m) ==
    /\ m.author = MIDJOURNEY_USER_ID
    /\ m.attachments # <<>>
    /\ Matches(words, m.content) >= MIN_MATCHES
    /\ ImageUrls(m) # <<>>

\* A datetime is the minute on the clock and, to order what happens within
\* one minute, the number of messages the channel held at that instant.
\* the messages of log created after datetime t, oldest first
After(log, t) == SubSeq(log, t.seq + 1, Len(log))

\* line 271: channel.history(limit=20, after=created_at)
History(log, t) == Take(After(log, t), HISTORY_LIMIT)

\* lines 274-306: the position of the first accepted message, or 0
FirstAccepted(words, msgs) ==
    IF \E k \in DOMAIN msgs : Accepts(words, msgs[k])
    THEN CHOOSE k \in DOMAIN msgs :
            /\ Accepts(words, msgs[k])
            /\ \A j \in 1 .. (k - 1) : ~Accepts(words, msgs[j])
    ELSE 0

(***************************************************************************)
(* State                                                                   *)
(***************************************************************************)
VARIABLES
    now,                \* the clock, in minutes
    DISCORD_AVAILABLE,  \* line 21 / 24: whether discord.py was imported
    discord_loop,       \* line 52: "none", "running" or "closed"
    ready,              \* bridge.ready (bridge.channel is set whenever it holds)
    pending_tasks,      \* line 48
    completed_tasks,    \* line 49
    channel,            \* the messages of the Discord channel, oldest first
    coros,              \* the process_generation_request coroutines, in order of creation
    http,               \* the check_status call in progress on the HTTP thread
    generate_resp,      \* what generate_image returns in this step
    status_resp,        \* what check_status returns in this step
    just_accepted,      \* the task_id POST /generate answered with success, while
                        \* nothing but coroutines has run since
    watch_log,          \* per task id: the status changes wait_for_response made
    tracing             \* whether the coroutines log their outbound calls

vars == <<now, DISCORD_AVAILABLE, discord_loop, ready, pending_tasks,
          completed_tasks, channel, coros, http, generate_resp, status_resp,
          just_accepted, watch_log, tracing>>

Terminal == {"completed", "timeout", "failed", "error"}

\* datetime.now()
Now == [minute |-> now, seq |-> Len(channel)]

\* d[k] = v for a dict d
Put(d, k, v) == [x \in DOMAIN d \cup {k} |-> IF x = k THEN v ELSE d[x]]

NoTaskInfo == [prompt |-> NoPrompt, created_at |-> [minute |-> 0, seq |-> 0]]
NoFound == [image_urls |-> <<>>, id |-> 0]

\* the coroutine object run_async_in_thread hands to the loop: success is
\* what send_imagine_command returned ("none" before it returns), answer the
\* status code of the POST /generate that made the coroutine (lines 426-433)
NewCoroutine(prompt, task_id) ==
    [pc |-> "start", task_id |-> task_id, prompt |-> prompt,
     task_info |-> NoTaskInfo, timeout |-> 0, found |-> NoFound, calls |-> <<>>,
     success |-> "none", answer |-> 200]

NoResponse == [code |-> 0, task_id |-> "", status |-> ""]
\* The answer of check_status.  reading: the handler is between its two
\* lookups and no other step was made since the first; clean: no other step
\* was made while the handler ran; prev: what the GET /status before this one
\* answered, when that one was clean and no step was made in between.
NoPrev == [task_id |-> "", status |-> "", image_urls |-> <<>>]
NoStatus ==
    [code |-> 0, task_id |-> "", status |-> "", has_image_urls |-> FALSE,
     image_urls |-> <<>>, follows |-> FALSE, prev |-> NoPrev,
     reading |-> FALSE, clean |-> FALSE]
Idle == [pc |-> "idle", task_id |-> "", follows |-> FALSE]

\* no handler returns in this step
NoReturn == generate_resp' = NoResponse /\ status_resp' = NoStatus

\* the state when the process has started: nothing stored, the bot not connected
InitStore ==
    /\ now = 0
    /\ DISCORD_AVAILABLE \in BOOLEAN
    /\ discord_loop = "none"
    /\ ready = FALSE
    /\ pending_tasks = <<>>
    /\ completed_tasks = <<>>
    /\ channel = <<>>
    /\ coros = <<>>
    /\ http = Idle
    /\ generate_resp = NoResponse
    /\ status_resp = NoStatus
    /\ just_accepted = ""
    /\ watch_log = [t \in TaskIds |-> [completed |-> 0, timeout |-> 0]]

\* the outbound calls are not logged
Init == InitStore /\ tracing = FALSE

\* every outbound call of a coroutine is logged in its calls field
InitCalls == InitStore /\ tracing = TRUE

(***************************************************************************)
(* The Discord side: on_ready, the end of bot.run, other users, the clock  *)
(***************************************************************************)
\* lines 511-526 and 60-85: ok is whether setup found the channel
OnReady(ok) ==
    /\ DISCORD_AVAILABLE
    /\ discord_loop = "none"
    /\ discord_loop' = "running"
    /\ ready' = ok
    /\ just_accepted' = ""
    /\ NoReturn
    /\ UNCHANGED <<now, DISCORD_AVAILABLE, pending_tasks, completed_tasks, channel,
                   coros, http, watch_log, tracing>>

\* line 565: bot.run returns, the loop is closed and no coroutine runs any more
CloseLoop ==
    /\ discord_loop = "running"
    /\ discord_loop' = "closed"
    /\ just_accepted' = ""
    /\ NoReturn
    /\ UNCHANGED <<now, DISCORD_AVAILABLE, ready, pending_tasks, completed_tasks,
                   channel, coros, http, watch_log, tracing>>

ExternalPosts == Cardinality({k \in DOMAIN channel : channel[k].author # BOT_USER_ID})

\* another user (Midjourney among them) posts in the channel
PostMessage(post) ==
    /\ ExternalPosts < MaxPosts
    /\ channel' = Append(channel, Message(Len(channel) + 1, post))
    /\ just_accepted' = ""
    /\ NoReturn
    /\ UNCHANGED <<now, DISCORD_AVAILABLE, discord_loop, ready, pending_tasks,
                   completed_tasks, coros, http, watch_log, tracing>>

\* what users other than Midjourney chat in the channel
Noise == [author |-> "3003", content |-> <<"h","i">>, files |-> <<>>]

\* n messages of other users, then post
PostBehind(n, post) ==
    /\ ExternalPosts < MaxPosts
    /\ channel' =
          channel \o [k \in 1 .. n |-> Message(Len(channel) + k, Noise)]
                  \o <<Message(Len(channel) + n + 1, post)>>
    /\ just_accepted' = ""
    /\ NoReturn
    /\ UNCHANGED <<now, DISCORD_AVAILABLE, discord_loop, ready, pending_tasks,
                   completed_tasks, coros, http, watch_log, tracing>>

\* a watcher is inside its wait budget
Watching(c) == c.pc \in {"history", "sleep"} /\ now < c.timeout

\* the clock moves on while a watcher can see it move; lines 293-303 take
\* no time to speak of
Tick ==
    /\ discord_loop = "running"
    /\ \E i \in DOMAIN coros : Watching(coros[i])
    /\ \A i \in DOMAIN coros : coros[i].pc \notin {"set_status", "set_image_urls"}
    /\ now' = now + TickMinutes
    /\ just_accepted' = ""
    /\ NoReturn
    /\ UNCHANGED <<DISCORD_AVAILABLE, discord_loop, ready, pending_tasks,
                   completed_tasks, channel, coros, http, watch_log, tracing>>

\* the retention horizon claim C8 speaks of, in minutes; the source sets none
RetentionMinutes == 15

\* completed task t is older than the retention horizon
Expired(t) ==
    /\ t \in DOMAIN completed_tasks
    /\ now - completed_tasks[t].completed_at.minute > RetentionMinutes

\* the clock moves on while a completed task has not reached that age
Age ==
    /\ \E t \in DOMAIN completed_tasks : ~Expired(t)
    /\ \A i \in DOMAIN coros : coros[i].pc \notin {"set_status", "set_image_urls"}
    /\ now' = now + TickMinutes
    /\ just_accepted' = ""
    /\ NoReturn
    /\ UNCHANGED <<DISCORD_AVAILABLE, discord_loop, ready, pending_tasks,
                   completed_tasks, channel, coros, http, watch_log, tracing>>

(***************************************************************************)
(* The event loop thread: process_generation_request, one action per       *)
(* stretch of code between two awaits                                      *)
(***************************************************************************)
\* lines 292-303 run without an await: no other coroutine runs in between
InCompletion(c) == c.pc \in {"set_status", "set_image_urls"}

\* coroutine i is the one the loop resumes next
Resumes(i) ==
    /\ discord_loop = "running"
    /\ i \in DOMAIN coros
    /\ \A j \in DOMAIN coros : j # i => ~InCompletion(coros[j])

\* lines 116-123
NewTask(prompt) ==
    [prompt |-> prompt, status |-> "submitted", created_at |-> Now,
     command_message_id |-> 0, response_message_id |-> 0, image_urls |-> <<>>]

\* pending_tasks[task_id][field] = value
SetField(tasks, task_id, field, value) ==
    [tasks EXCEPT ![task_id] = [@ EXCEPT ![field] = value]]

\* lines 116-123: the store after send_imagine_command recorded the task
Recorded(tasks, task_id, prompt) == Put(tasks, task_id, NewTask(prompt))

\* lines 490-128: up to the await of the interaction POST
BeginRequest(i) ==
    /\ Resumes(i)
    /\ coros[i].pc = "start"
    /\ IF ~ready
       THEN /\ coros' = [coros EXCEPT ![i].pc = "done", ![i].success = "false"]
            /\ UNCHANGED pending_tasks
       ELSE /\ pending_tasks' =
                  Recorded(pending_tasks, coros[i].task_id, coros[i].prompt)
            /\ coros' = [coros EXCEPT ![i].pc = "interaction"]
    /\ NoReturn
    /\ UNCHANGED <<now, DISCORD_AVAILABLE, discord_loop, ready, completed_tasks,
                   channel, http, just_accepted, watch_log, tracing>>

\* lines 135-137 of a program that forgets line 135
MarkWaiting_NoStatus(tasks, task_id, mid) ==
    IF mid = 0 THEN tasks
    ELSE SetField(tasks, task_id, "command_message_id", mid)

\* lines 135-137, reached when a send returned: mid is the id of the
\* message channel.send made, 0 when the send made none
MarkWaiting(tasks, task_id, mid) ==
    LET sent == IF mid = 0 THEN tasks
                ELSE SetField(tasks, task_id, "command_message_id", mid)
    IN  SetField(sent, task_id, "status", "waiting_for_response")

\* lines 257-268: wait_for_response up to its first await; tasks is
\* pending_tasks as the coroutine finds it
EnterWait(c, tasks) ==
    IF c.task_id \notin DOMAIN tasks
    THEN [c EXCEPT !.pc = "done"]
    ELSE IF tasks[c.task_id].prompt.kind # "str"
         \* .lower() of line 261 raises; line 320 catches it and returns
         THEN [c EXCEPT !.pc = "done",
                        !.task_info = [prompt |-> tasks[c.task_id].prompt,
                                       created_at |-> tasks[c.task_id].created_at]]
         \* line 268 holds on entry: the first channel.history is awaited
         ELSE [c EXCEPT !.pc = "history",
                        !.task_info = [prompt |-> tasks[c.task_id].prompt,
                                       created_at |-> tasks[c.task_id].created_at],
                        !.timeout = now + MAX_WAIT_MINUTES]

\* the coroutine after an outbound call: when tracing, its log grows by the call
Called(c, name, outcome) ==
    IF tracing THEN [c EXCEPT !.calls = Append(@, <<name, outcome>>)] ELSE c

\* line 137: send_imagine_command returns True
ReturnedTrue(c) == [c EXCEPT !.success = "true"]

\* a send returned without raising: lines 135-137, then 492-496 and 257-268
SendReturned(i, name, mid) ==
    LET tasks == MarkWaiting(pending_tasks, coros[i].task_id, mid)
    IN  /\ pending_tasks' = tasks
        /\ coros' = [coros EXCEPT ![i] =
                       EnterWait(ReturnedTrue(Called(coros[i], name, "ok")), tasks)]

\* a send raised and the next strategy is awaited
SendRaised(i, name, next) ==
    /\ coros' = [coros EXCEPT ![i] = [Called(coros[i], name, "raise") EXCEPT !.pc = next]]
    /\ UNCHANGED pending_tasks

\* lines 126-133 of a program whose "except" is a "finally": the lookup
\* follows the interaction POST whatever its answer
InteractionPost_TriesOn(i, ok) ==
    /\ Resumes(i)
    /\ coros[i].pc = "interaction"
    /\ coros' = [coros EXCEPT ![i] =
                   [Called(coros[i], "interaction", IF ok THEN "ok" ELSE "raise")
                       EXCEPT !.pc = "fetch_commands"]]
    /\ NoReturn
    /\ UNCHANGED <<now, DISCORD_AVAILABLE, discord_loop, ready, pending_tasks,
                   completed_tasks, channel, http, just_accepted, watch_log, tracing>>

\* lines 180-192: the interaction POST answers 200, or anything else
InteractionPost(i, ok) ==
    /\ Resumes(i)
    /\ coros[i].pc = "interaction"
    /\ IF ok THEN SendReturned(i, "interaction", 0)
             ELSE SendRaised(i, "interaction", "fetch_commands")
    /\ NoReturn
    /\ UNCHANGED <<now, DISCORD_AVAILABLE, discord_loop, ready, completed_tasks,
                   channel, http, just_accepted, watch_log, tracing>>

\* lines 201-210 and 242-245: guild.fetch_commands() raises, or returns a
\* list with or without Midjourney's imagine command
FetchCommands(i, outcome) ==
    /\ Resumes(i)
    /\ coros[i].pc = "fetch_commands"
    /\ outcome \in {"raise", "found", "absent"}
    /\ coros' = [coros EXCEPT ![i] =
                   [Called(coros[i], "fetch_commands", outcome) EXCEPT !.pc =
                      CASE outcome = "raise" -> "send_fallback"
                        [] outcome = "found" -> "callback"
                        [] outcome = "absent" -> "send_command"]]
    /\ NoReturn
    /\ UNCHANGED <<now, DISCORD_AVAILABLE, discord_loop, ready, pending_tasks,
                   completed_tasks, channel, http, just_accepted, watch_log, tracing>>

\* lines 217-240: the mock interaction and imagine_command.callback
Callback(i, ok) ==
    /\ Resumes(i)
    /\ coros[i].pc = "callback"
    /\ IF ok THEN SendReturned(i, "callback", 0)
             ELSE SendRaised(i, "callback", "send_fallback")
    /\ NoReturn
    /\ UNCHANGED <<now, DISCORD_AVAILABLE, discord_loop, ready, completed_tasks,
                   channel, http, just_accepted, watch_log, tracing>>

\* channel.send(text) returned: the channel holds the bot's message
Sent(text) == Append(channel, BotMessage(Len(channel) + 1, text))

\* lines 245-246: the message that looks like a slash command
SendCommand(i, ok) ==
    /\ Resumes(i)
    /\ coros[i].pc = "send_command"
    /\ IF ok
       THEN /\ channel' = Sent(SlashText \o coros[i].prompt.text)
            /\ SendReturned(i, "send_command", Len(channel) + 1)
       ELSE /\ SendRaised(i, "send_command", "send_fallback")
            /\ UNCHANGED channel
    /\ NoReturn
    /\ UNCHANGED <<now, DISCORD_AVAILABLE, discord_loop, ready, completed_tasks,
                   http, just_accepted, watch_log, tracing>>

\* lines 248-252, and 139-143 when this send raises too
SendFallback(i, ok) ==
    /\ Resumes(i)
    /\ coros[i].pc = "send_fallback"
    /\ IF ok
       THEN /\ channel' = Sent(ImagineText \o coros[i].prompt.text)
            /\ SendReturned(i, "send_fallback", Len(channel) + 1)
       ELSE /\ coros' = [coros EXCEPT ![i] =
                           [Called(coros[i], "send_fallback", "raise")
                               EXCEPT !.pc = "done", !.success = "false"]]
            /\ pending_tasks' =
                  IF coros[i].task_id \in DOMAIN pending_tasks
                  THEN SetField(pending_tasks, coros[i].task_id, "status", "error")
                  ELSE pending_tasks
            /\ UNCHANGED channel
    /\ NoReturn
    /\ UNCHANGED <<now, DISCORD_AVAILABLE, discord_loop, ready, completed_tasks,
                   http, just_accepted, watch_log, tracing>>

\* lines 293-299
CompletedTask(c, m) ==
    [status |-> "completed", prompt |-> c.task_info.prompt,
     image_urls |-> ImageUrls(m), discord_message_id |-> m.id,
     completed_at |-> Now]

\* lines 269-299 and 308-312: channel.history returns (or raises), the
\* messages are scanned and, on the first accepted one, line 293 is run
HistoryReturns(i, ok) ==
    /\ Resumes(i)
    /\ coros[i].pc = "history"
    /\ LET c == coros[i]
           msgs == History(channel, c.task_info.created_at)
           k == IF ok THEN FirstAccepted(PromptWords(c.task_info.prompt), msgs) ELSE 0
       IN  IF k = 0
           THEN /\ coros' = [coros EXCEPT ![i].pc = "sleep"]
                /\ UNCHANGED completed_tasks
           ELSE /\ completed_tasks' =
                      Put(completed_tasks, c.task_id, CompletedTask(c, msgs[k]))
                /\ coros' = [coros EXCEPT ![i].pc = "set_status",
                                          ![i].found = [image_urls |-> ImageUrls(msgs[k]),
                                                        id |-> msgs[k].id]]
    /\ NoReturn
    /\ UNCHANGED <<now, DISCORD_AVAILABLE, discord_loop, ready, pending_tasks,
                   channel, http, just_accepted, watch_log, tracing>>

\* the log of status changes after wait_for_response wrote status to task_id
Logged(task_id, status) ==
    IF pending_tasks[task_id].status = status
    THEN watch_log
    ELSE [watch_log EXCEPT ![task_id][status] = @ + 1]

\* line 301
SetStatus(i) ==
    /\ Resumes(i)
    /\ coros[i].pc = "set_status"
    /\ pending_tasks' = SetField(pending_tasks, coros[i].task_id, "status", "completed")
    /\ watch_log' = Logged(coros[i].task_id, "completed")
    /\ coros' = [coros EXCEPT ![i].pc = "set_image_urls"]
    /\ NoReturn
    /\ UNCHANGED <<now, DISCORD_AVAILABLE, discord_loop, ready, completed_tasks,
                   channel, http, just_accepted, tracing>>

\* the store without the record of task_id
Without(tasks, task_id) == [t \in DOMAIN tasks \ {task_id} |-> tasks[t]]

\* lines 302-306 of a program that moves a completed task out of pending_tasks
SetImageUrls_Moving(i) ==
    /\ Resumes(i)
    /\ coros[i].pc = "set_image_urls"
    /\ pending_tasks' = Without(pending_tasks, coros[i].task_id)
    /\ coros' = [coros EXCEPT ![i].pc = "done"]
    /\ NoReturn
    /\ UNCHANGED <<now, DISCORD_AVAILABLE, discord_loop, ready, completed_tasks,
                   channel, http, just_accepted, watch_log, tracing>>

\* lines 302-306
SetImageUrls(i) ==
    /\ Resumes(i)
    /\ coros[i].pc = "set_image_urls"
    /\ pending_tasks' =
          SetField(SetField(pending_tasks, coros[i].task_id, "response_message_id",
                            coros[i].found.id),
                   coros[i].task_id, "image_urls", coros[i].found.image_urls)
    /\ coros' = [coros EXCEPT ![i].pc = "done"]
    /\ NoReturn
    /\ UNCHANGED <<now, DISCORD_AVAILABLE, discord_loop, ready, completed_tasks,
                   channel, http, just_accepted, watch_log, tracing>>

\* lines 314-318: the store after the watcher of task_id ran out of budget
TimedOut(tasks, task_id) ==
    IF task_id \in DOMAIN tasks
    THEN SetField(tasks, task_id, "status", "timeout")
    ELSE tasks

\* asyncio.sleep returns (line 308 or 312), then line 268 and, when the
\* budget is spent, lines 314-318
SleepReturns(i) ==
    /\ Resumes(i)
    /\ coros[i].pc = "sleep"
    /\ IF now < coros[i].timeout
       THEN /\ coros' = [coros EXCEPT ![i].pc = "history"]
            /\ UNCHANGED <<pending_tasks, watch_log, tracing>>
       ELSE /\ coros' = [coros EXCEPT ![i].pc = "done"]
            /\ pending_tasks' = TimedOut(pending_tasks, coros[i].task_id)
            /\ watch_log' = IF coros[i].task_id \in DOMAIN pending_tasks
                            THEN Logged(coros[i].task_id, "timeout")
                            ELSE watch_log
    /\ NoReturn
    /\ UNCHANGED <<now, DISCORD_AVAILABLE, discord_loop, ready, completed_tasks,
                   channel, http, just_accepted, tracing>>

\* asyncio.sleep returns TickMinutes later (the polls in between found what
\* the last one found), then line 268 and, when the budget is spent, 314-318
SleepThrough(i) ==
    /\ Resumes(i)
    /\ coros[i].pc = "sleep"
    /\ now' = now + TickMinutes
    /\ IF now' < coros[i].timeout
       THEN /\ coros' = [coros EXCEPT ![i].pc = "history"]
            /\ UNCHANGED <<pending_tasks, watch_log>>
       ELSE /\ coros' = [coros EXCEPT ![i].pc = "done"]
            /\ pending_tasks' = TimedOut(pending_tasks, coros[i].task_id)
            /\ watch_log' = IF coros[i].task_id \in DOMAIN pending_tasks
                            THEN Logged(coros[i].task_id, "timeout")
                            ELSE watch_log
    /\ just_accepted' = ""
    /\ NoReturn
    /\ UNCHANGED <<DISCORD_AVAILABLE, discord_loop, ready, completed_tasks,
                   channel, http, tracing>>

(***************************************************************************)
(* The HTTP thread                                                         *)
(***************************************************************************)
\* a request body: json is whether request.get_json() gives a dict
Bodies ==
    [json : {TRUE}, prompt : Prompts, task_id : TaskIds]
        \cup {[json |-> FALSE, prompt |-> NoPrompt, task_id |-> "t1"]}

\* lines 404-437 of a program that looks at bridge.ready before the prompt
GenerateCode_ReadyFirst(body) ==
    IF ~body.json THEN 500
    ELSE IF ~ready THEN 503
    ELSE IF Falsy(body.prompt) THEN 400
    ELSE IF ~DISCORD_AVAILABLE THEN 503
    ELSE IF discord_loop # "running" THEN 503
    ELSE 200

\* lines 404-437: the status code generate_image answers body with
GenerateCode(body) ==
    IF ~body.json THEN 500
    ELSE IF Falsy(body.prompt) THEN 400
    ELSE IF ~ready THEN 503
    ELSE IF ~DISCORD_AVAILABLE THEN 503
    ELSE IF discord_loop # "running" THEN 503
    ELSE 200

\* POST /generate
GenerateImage(body) ==
    /\ GenerateCode(body) = 200 => Len(coros) < MaxRequests
    /\ IF GenerateCode(body) = 200
       THEN /\ coros' = Append(coros, NewCoroutine(body.prompt, body.task_id))
            /\ generate_resp' =
                  [code |-> 200, task_id |-> body.task_id, status |-> "submitted"]
            /\ just_accepted' = body.task_id
       ELSE /\ generate_resp' =
                  [code |-> GenerateCode(body), task_id |-> "", status |-> ""]
            /\ just_accepted' = ""
            /\ UNCHANGED coros
    /\ status_resp' = NoStatus
    /\ UNCHANGED <<now, DISCORD_AVAILABLE, discord_loop, ready, pending_tasks,
                   completed_tasks, channel, http, watch_log, tracing>>

\* lines 443-451: what check_status returns when it finds task_id in completed_tasks
CompletedStatus(task_id, follows) ==
    [code |-> 200, task_id |-> task_id, status |-> "completed",
     has_image_urls |-> TRUE, image_urls |-> completed_tasks[task_id].image_urls,
     follows |-> follows, prev |-> NoPrev, reading |-> FALSE, clean |-> TRUE]

\* lines 453-466: what it returns when it did not
PendingStatus(task_id, follows) ==
    IF task_id \in DOMAIN pending_tasks
    THEN [code |-> 200, task_id |-> task_id,
          status |-> pending_tasks[task_id].status,
          has_image_urls |-> FALSE, image_urls |-> <<>>, follows |-> follows,
          prev |-> NoPrev, reading |-> FALSE, clean |-> FALSE]
    ELSE [code |-> 404, task_id |-> task_id, status |-> "not_found",
          has_image_urls |-> FALSE, image_urls |-> <<>>, follows |-> follows,
          prev |-> NoPrev, reading |-> FALSE, clean |-> FALSE]

\* the answer r as the next GET /status remembers it
Told(r) ==
    IF r.code = 0 THEN r.prev
    ELSE IF r.clean
         THEN [task_id |-> r.task_id, status |-> r.status, image_urls |-> r.image_urls]
         ELSE NoPrev

\* GET /status/<task_id> of a program that drops a completed task once read
CheckStatus_Forgets(task_id) ==
    /\ http.pc = "idle"
    /\ IF task_id \in DOMAIN completed_tasks
       THEN /\ status_resp' = [CompletedStatus(task_id, just_accepted = task_id)
                                  EXCEPT !.prev = Told(status_resp)]
            /\ completed_tasks' =
                  [t \in DOMAIN completed_tasks \ {task_id} |-> completed_tasks[t]]
            /\ UNCHANGED http
       ELSE /\ http' = [pc |-> "pending", task_id |-> task_id,
                        follows |-> just_accepted = task_id]
            /\ status_resp' = [NoStatus EXCEPT !.prev = Told(status_resp),
                                               !.reading = TRUE]
            /\ UNCHANGED completed_tasks
    /\ generate_resp' = NoResponse
    /\ just_accepted' = ""
    /\ UNCHANGED <<now, DISCORD_AVAILABLE, discord_loop, ready, pending_tasks,
                   channel, coros, watch_log, tracing>>

\* GET /status/<task_id> of a program that looks into pending_tasks first
CheckStatus_PendingFirst(task_id) ==
    /\ http.pc = "idle"
    /\ IF task_id \in DOMAIN pending_tasks
       THEN /\ status_resp' = [PendingStatus(task_id, just_accepted = task_id)
                                  EXCEPT !.prev = Told(status_resp)]
            /\ UNCHANGED http
       ELSE /\ http' = [pc |-> "pending", task_id |-> task_id,
                        follows |-> just_accepted = task_id]
            /\ status_resp' = [NoStatus EXCEPT !.prev = Told(status_resp),
                                               !.reading = TRUE]
    /\ generate_resp' = NoResponse
    /\ just_accepted' = ""
    /\ UNCHANGED <<now, DISCORD_AVAILABLE, discord_loop, ready, pending_tasks,
                   completed_tasks, channel, coros, watch_log, tracing>>

\* GET /status/<task_id>, lines 443-451: the look into completed_tasks
CheckStatus(task_id) ==
    /\ http.pc = "idle"
    /\ IF task_id \in DOMAIN completed_tasks
       THEN /\ status_resp' = [CompletedStatus(task_id, just_accepted = task_id)
                                  EXCEPT !.prev = Told(status_resp)]
            /\ UNCHANGED http
       ELSE /\ http' = [pc |-> "pending", task_id |-> task_id,
                        follows |-> just_accepted = task_id]
            /\ status_resp' = [NoStatus EXCEPT !.prev = Told(status_resp),
                                               !.reading = TRUE]
    /\ generate_resp' = NoResponse
    /\ just_accepted' = ""
    /\ UNCHANGED <<now, DISCORD_AVAILABLE, discord_loop, ready, pending_tasks,
                   completed_tasks, channel, coros, watch_log, tracing>>

\* lines 453-466: then the look into pending_tasks
CheckStatusPending ==
    /\ http.pc = "pending"
    /\ status_resp' = [PendingStatus(http.task_id, http.follows)
                          EXCEPT !.prev = status_resp.prev,
                                 !.clean = status_resp.reading]
    /\ http' = Idle
    /\ generate_resp' = NoResponse
    /\ UNCHANGED <<now, DISCORD_AVAILABLE, discord_loop, ready, pending_tasks,
                   completed_tasks, channel, coros, just_accepted, watch_log, tracing>>

(***************************************************************************)
(* Specifications                                                          *)
(***************************************************************************)
\* The bodies POST /generate is called with.  Task ids are interchangeable:
\* the first request that is accepted is given "t1".
AcceptedBodies ==
    {b \in Bodies : /\ b.json
                    /\ ~Falsy(b.prompt)
                    /\ coros = <<>> => b.task_id = "t1"}

\* what happens outside the program
Environment ==
    \/ \E ok \in BOOLEAN : OnReady(ok)
    \/ \E post \in Posts : PostMessage(post)
    \/ Tick

\* send_imagine_command after its first await
Sending ==
    \/ \E i \in DOMAIN coros, ok \in BOOLEAN : InteractionPost(i, ok)
    \/ \E i \in DOMAIN coros, outcome \in {"raise", "found", "absent"} :
          FetchCommands(i, outcome)
    \/ \E i \in DOMAIN coros, ok \in BOOLEAN : Callback(i, ok)
    \/ \E i \in DOMAIN coros, ok \in BOOLEAN : SendCommand(i, ok)
    \/ \E i \in DOMAIN coros, ok \in BOOLEAN : SendFallback(i, ok)

\* wait_for_response after its first await
Waiting ==
    \/ \E i \in DOMAIN coros, ok \in BOOLEAN : HistoryReturns(i, ok)
    \/ \E i \in DOMAIN coros : SetStatus(i)
    \/ \E i \in DOMAIN coros : SetImageUrls(i)
    \/ \E i \in DOMAIN coros : SleepReturns(i)

\* The task store under POST /generate: every send strategy, every watcher
Next ==
    \/ Environment
    \/ \E body \in AcceptedBodies : GenerateImage(body)
    \/ \E i \in DOMAIN coros : BeginRequest(i)
    \/ Sending
    \/ Waiting

Spec == Init /\ [][Next]_vars

\* The store under POST /generate and GET /status, in a guild where the bot
\* can neither fetch the command list nor post: the interaction POST is
\* accepted, or every attempt after it raises
NextStatus ==
    \/ Environment
    \/ \E body \in AcceptedBodies : GenerateImage(body)
    \/ \E task_id \in TaskIds : CheckStatus(task_id)
    \/ CheckStatusPending
    \/ \E i \in DOMAIN coros : BeginRequest(i)
    \/ \E i \in DOMAIN coros, ok \in BOOLEAN : InteractionPost(i, ok)
    \/ \E i \in DOMAIN coros : FetchCommands(i, "raise")
    \/ \E i \in DOMAIN coros : SendFallback(i, FALSE)
    \/ Waiting

SpecStatus == Init /\ [][NextStatus]_vars

\* send_imagine_command with its outbound calls logged, up to the first
\* await of wait_for_response
NextCalls ==
    \/ \E ok \in BOOLEAN : OnReady(ok)
    \/ \E body \in AcceptedBodies : GenerateImage(body)
    \/ \E i \in DOMAIN coros : BeginRequest(i)
    \/ Sending

SpecCalls == InitCalls /\ [][NextCalls]_vars

\* One request whose interaction POST is accepted, and the time after its
\* completion.  The event loop keeps running its coroutines and the clock
\* keeps moving: every step that stays possible is taken in the end.
NextAging ==
    \/ OnReady(TRUE)
    \/ \E post \in Posts : PostMessage(post)
    \/ Tick
    \/ Age
    \/ \E body \in AcceptedBodies : coros = <<>> /\ GenerateImage(body)
    \/ \E task_id \in TaskIds : CheckStatus(task_id)
    \/ CheckStatusPending
    \/ \E i \in DOMAIN coros : BeginRequest(i)
    \/ \E i \in DOMAIN coros : InteractionPost(i, TRUE)
    \/ Waiting

SpecAging == Init /\ [][NextAging]_vars /\ WF_vars(NextAging)

\* One request, one post: the watcher's decision over the prompts and posts
\* of MatchPrompts and MatchPosts
NextMatch ==
    \/ OnReady(TRUE)
    \/ \E post \in MatchPosts : PostMessage(post)
    \/ Tick
    \/ \E prompt \in MatchPrompts :
          /\ coros = <<>>
          /\ GenerateImage([json |-> TRUE, prompt |-> prompt, task_id |-> "t1"])
    \/ \E i \in DOMAIN coros : BeginRequest(i)
    \/ \E i \in DOMAIN coros : InteractionPost(i, TRUE)
    \/ Waiting

SpecMatch == Init /\ [][NextMatch]_vars

\* Every request body, accepted or rejected, before on_ready, while the loop
\* runs and after bot.run has returned
NextReject ==
    \/ Environment
    \/ CloseLoop
    \/ \E body \in Bodies : GenerateImage(body)
    \/ \E i \in DOMAIN coros : BeginRequest(i)
    \/ \E i \in DOMAIN coros : InteractionPost(i, TRUE)
    \/ Waiting

SpecReject == Init /\ [][NextReject]_vars

\* Requests whose interaction POST is accepted, the clock moving on after a
\* completion as well: an id is submitted again long after it was completed
NextResubmit ==
    \/ OnReady(TRUE)
    \/ \E post \in Posts : PostMessage(post)
    \/ Tick
    \/ Age
    \/ \E body \in AcceptedBodies : GenerateImage(body)
    \/ \E i \in DOMAIN coros : BeginRequest(i)
    \/ \E i \in DOMAIN coros : InteractionPost(i, TRUE)
    \/ Waiting

SpecResubmit == Init /\ [][NextResubmit]_vars

\* how many messages other users post before Midjourney's
FloodSizes == {0, HISTORY_LIMIT - 1, HISTORY_LIMIT}

\* One request whose interaction POST is accepted, in a busy channel:
\* Midjourney's post arrives in the first minute, behind the chat of other
\* users, every channel.history call returns, and the watcher polls at
\* least once between two steps of the clock
NextFlood ==
    \/ OnReady(TRUE)
    \/ \E n \in FloodSizes, post \in Posts : now = 0 /\ PostBehind(n, post)
    \/ \E i \in DOMAIN coros : SleepThrough(i)
    \/ \E body \in AcceptedBodies : coros = <<>> /\ GenerateImage(body)
    \/ \E i \in DOMAIN coros : BeginRequest(i)
    \/ \E i \in DOMAIN coros : InteractionPost(i, TRUE)
    \/ \E i \in DOMAIN coros : HistoryReturns(i, TRUE)
    \/ \E i \in DOMAIN coros : SetStatus(i)
    \/ \E i \in DOMAIN coros : SetImageUrls(i)
    \/ \E i \in DOMAIN coros : SleepReturns(i)

SpecFlood == Init /\ [][NextFlood]_vars

(***************************************************************************)
(* Claims about the task store, checked under Spec                         *)
(***************************************************************************)
\* no coroutine is between line 293 and line 303
NoCompletionRunning == \A i \in DOMAIN coros : ~InCompletion(coros[i])

\* the step is made by wait_for_response (one iteration of its loop, or its end)
WatcherStep ==
    \E i \in DOMAIN coros :
        /\ coros[i].pc \in {"history", "sleep", "set_status", "set_image_urls"}
        /\ coros'[i] # coros[i]

\* C2: once the status stored for a task id is completed, timeout, failed or
\* error, no step changes it
C2_TerminalStatusIsSink ==
    [][\A t \in DOMAIN pending_tasks :
          pending_tasks[t].status \in Terminal
             => pending_tasks'[t].status = pending_tasks[t].status]_vars

\* C3 as stated: a task id is a key of at most one of pending_tasks and
\* completed_tasks
C3_IdInOnePartition ==
    \A t \in TaskIds : ~(t \in DOMAIN pending_tasks /\ t \in DOMAIN completed_tasks)

\* C3 as amended: every key of completed_tasks is a key of pending_tasks too
\* (completing a task copies it and leaves the pending record in place)
C3_CompletedIdStaysPending ==
    \A t \in DOMAIN completed_tasks : t \in DOMAIN pending_tasks

\* a task whose completion has run to its end (line 306)
C3_Witness ==
    \E t \in DOMAIN completed_tasks :
        /\ NoCompletionRunning
        /\ pending_tasks[t].status = "completed"
        /\ pending_tasks[t].image_urls = completed_tasks[t].image_urls

\* C4: image_urls is non-empty if and only if status is completed, for every
\* record of the store, whenever no completion is half done
C4_ImageUrlsIffCompleted ==
    NoCompletionRunning =>
        /\ \A t \in DOMAIN pending_tasks :
              pending_tasks[t].image_urls # <<>> <=> pending_tasks[t].status = "completed"
        /\ \A t \in DOMAIN completed_tasks :
              completed_tasks[t].image_urls # <<>> <=> completed_tasks[t].status = "completed"

\* no message of the channel is one a watcher of task id t accepts
NoMatchArrived(t) ==
    \A i \in DOMAIN coros, k \in DOMAIN channel :
        coros[i].task_id = t => ~Accepts(PromptWords(coros[i].prompt), channel[k])

\* C5: when no matching message arrives, the status of a watched task changes
\* to timeout once, not more often, and image_urls is still empty afterwards
C5_TimeoutOnceAndEmpty ==
    \A t \in DOMAIN pending_tasks :
        NoMatchArrived(t) =>
            /\ watch_log[t].timeout <= 1
            /\ pending_tasks[t].status = "timeout" => pending_tasks[t].image_urls = <<>>

\* task id t is completed: both records say so and agree on the urls
Completed(t) ==
    /\ NoCompletionRunning
    /\ t \in DOMAIN completed_tasks
    /\ t \in DOMAIN pending_tasks
    /\ pending_tasks[t].status = "completed"
    /\ pending_tasks[t].image_urls = completed_tasks[t].image_urls

\* C6: once a task id is completed, no step of any wait_for_response loop
\* alters the status or the image_urls recorded for it in either dict
C6_CompletedNeverAltered ==
    [][\A t \in TaskIds :
          (Completed(t) /\ WatcherStep) =>
              /\ pending_tasks'[t].status = pending_tasks[t].status
              /\ pending_tasks'[t].image_urls = pending_tasks[t].image_urls
              /\ completed_tasks'[t].status = completed_tasks[t].status
              /\ completed_tasks'[t].image_urls = completed_tasks[t].image_urls]_vars

\* C7: for one task id at most one of the two watcher-caused changes, into
\* completed and into timeout, ever happens
C7_CompletedTimeoutExclusive ==
    \A t \in TaskIds : ~(watch_log[t].completed > 0 /\ watch_log[t].timeout > 0)

\* C10: send_imagine_command called with a task id the store already holds
\* leaves the record as it is
C10_CreateKeepsExistingRecord ==
    [][\A i \in DOMAIN coros :
          (/\ coros[i].pc = "start"
           /\ coros'[i].pc # "start"
           /\ coros[i].task_id \in DOMAIN pending_tasks)
             => pending_tasks'[coros[i].task_id] = pending_tasks[coros[i].task_id]]_vars

\* C18: once every coroutine started for a task id has finished, the status
\* stored for the id is completed, timeout, failed or error
C18_FinishedTaskIsTerminal ==
    \A t \in DOMAIN pending_tasks :
        (\A i \in DOMAIN coros : coros[i].task_id = t => coros[i].pc = "done")
            => pending_tasks[t].status \in Terminal

\* C19: one inbound message completes at most one task id
C19_MessageResolvesOneTask ==
    \A t, u \in DOMAIN completed_tasks :
        t # u => completed_tasks[t].discord_message_id
                    # completed_tasks[u].discord_message_id

\* C23: every record of completed_tasks has the status completed and a
\* non-empty image_urls, its id is a key of pending_tasks too, and no step
\* takes a key out of either dict
C23_CompletedRecordsWellFormed ==
    [][/\ \A t \in DOMAIN completed_tasks' :
             /\ completed_tasks'[t].status = "completed"
             /\ completed_tasks'[t].image_urls # <<>>
             /\ t \in DOMAIN pending_tasks'
       /\ DOMAIN pending_tasks \subseteq DOMAIN pending_tasks'
       /\ DOMAIN completed_tasks \subseteq DOMAIN completed_tasks']_vars

\* a completed id that was submitted twice, the send of one submission
\* having failed: its completed record stands beside a pending record in error
C23_Witness ==
    \E t \in DOMAIN completed_tasks :
        /\ completed_tasks[t].status = "completed"
        /\ completed_tasks[t].image_urls # <<>>
        /\ pending_tasks[t].status = "error"

(***************************************************************************)
(* Claims about GET /status, checked under SpecStatus                      *)
(***************************************************************************)
\* C1: a GET /status/<task_id> issued right after a POST /generate that was
\* answered with success returns submitted or waiting_for_response
C1_StatusAfterGenerateIsNonTerminal ==
    status_resp.follows =>
        status_resp.status \in {"submitted", "waiting_for_response"}

\* the step is one of check_status
StatusStep == http' # http \/ status_resp'.code # 0

\* C14: check_status leaves both dicts as they are, and a GET /status that
\* follows another for the same id with no step in between answers the same
\* status and image_urls
C14_ReadsLeaveStoreAndAgree ==
    [][/\ StatusStep => UNCHANGED <<pending_tasks, completed_tasks>>
       /\ (/\ status_resp'.code # 0
           /\ status_resp'.clean
           /\ status_resp'.prev.task_id = status_resp'.task_id)
             => /\ status_resp'.status = status_resp'.prev.status
                /\ status_resp'.image_urls = status_resp'.prev.image_urls]_vars

\* a second read of a pending task right after the first, another task
\* being completed
C14_Witness ==
    /\ status_resp.code = 200
    /\ status_resp.clean
    /\ status_resp.prev.task_id = status_resp.task_id
    /\ status_resp.status = "waiting_for_response"
    /\ completed_tasks # <<>>

\* C20: every 200 answer of GET /status whose status is completed carries
\* the non-empty image_urls of the task
C20_CompletedAnswerHasImageUrls ==
    (status_resp.code = 200 /\ status_resp.status = "completed") =>
        /\ status_resp.has_image_urls
        /\ status_resp.image_urls # <<>>

\* GET /status/<t> has just returned
Answered(t) == status_resp.code # 0 /\ status_resp.task_id = t

\* and its answer was completed
AnsweredCompleted(t) == Answered(t) /\ status_resp.status = "completed"

\* C22: once GET /status has answered completed for a task id, every later
\* GET /status for that id answers completed, whatever became of the id since
\* (resubmitted and pending, failed or timed out)
C22_CompletedAnswerIsForGood ==
    \A t \in TaskIds :
        [](AnsweredCompleted(t) => [](Answered(t) => AnsweredCompleted(t)))

\* GET /status answers completed a second time, for an id that was
\* submitted twice and whose pending record says timeout
C22_Witness ==
    /\ status_resp.code = 200
    /\ status_resp.status = "completed"
    /\ status_resp.prev.task_id = status_resp.task_id
    /\ status_resp.prev.status = "completed"
    /\ pending_tasks[status_resp.task_id].status = "timeout"

(***************************************************************************)
(* Claims about the outbound calls, checked under SpecCalls                *)
(***************************************************************************)
\* C9: one invocation never issues a second outbound call (interaction POST,
\* command fetch or invoke, channel.send), whatever the outcome of the first
C9_OneOutboundCall ==
    \A i \in DOMAIN coros : Len(coros[i].calls) <= 1

(***************************************************************************)
(* Claims about retention, checked under SpecAging                         *)
(***************************************************************************)
\* C8: a completed task older than the retention horizon is removed from the
\* store in the end
C8_ExpiredTaskIsRemoved ==
    \A t \in TaskIds : Expired(t) ~> (t \notin DOMAIN completed_tasks)

(***************************************************************************)
(* Claims about the result of a submission, checked under SpecCalls        *)
(***************************************************************************)
\* the last element of a non-empty sequence
Last(seq) == seq[Len(seq)]

\* C11 as stated: the caller of POST /generate is answered success only when
\* a send was accepted, and failure when every send attempt failed
C11_CallerToldTransportOutcome ==
    \A i \in DOMAIN coros :
        (coros[i].success = "false" /\ coros[i].calls # <<>>) => coros[i].answer # 200

\* C11 as amended: POST /generate answers before anything is sent; it is
\* send_imagine_command that returns True only when a send returned without
\* raising, with the status waiting_for_response, and that returns False with
\* the status error when every send attempt raised (with nothing recorded
\* when the bridge was not ready)
C11_SendResultReflectsTransport ==
    [][\A i \in DOMAIN coros :
          coros[i].success = "none" =>
             /\ coros'[i].success = "true" =>
                   /\ pending_tasks'[coros[i].task_id].status = "waiting_for_response"
                   /\ Last(coros'[i].calls)[2] = "ok"
                   /\ \A k \in 1 .. (Len(coros'[i].calls) - 1) :
                         coros'[i].calls[k][2] # "ok"
             /\ coros'[i].success = "false" =>
                   IF coros[i].pc = "start"
                   THEN pending_tasks' = pending_tasks
                   ELSE /\ pending_tasks'[coros[i].task_id].status = "error"
                        /\ \A k \in DOMAIN coros'[i].calls :
                              coros'[i].calls[k][2] # "ok"]_vars

\* one submission whose four calls all failed, another whose send was accepted
C11_Witness ==
    \E i, j \in DOMAIN coros :
        /\ coros[i].success = "false"
        /\ Len(coros[i].calls) = 4
        /\ coros[j].success = "true"
        /\ pending_tasks[coros[j].task_id].status = "waiting_for_response"
        /\ coros[i].answer = 200

(***************************************************************************)
(* Claims about the order of the send strategies, checked under SpecCalls  *)
(***************************************************************************)
\* the strategy an outbound call belongs to: 1 the interaction POST (line
\* 128), 2 the command lookup (the try of lines 196-246), 3 the plain
\* channel message (line 251)
Strategy(name) ==
    CASE name = "interaction" -> 1
      [] name \in {"fetch_commands", "callback", "send_command"} -> 2
      [] name = "send_fallback" -> 3

\* strategy s was attempted and raised
StrategyFailed(calls, s) ==
    \E k \in DOMAIN calls : Strategy(calls[k][1]) = s /\ calls[k][2] = "raise"

\* the calls of one invocation go through the strategies in order, each one
\* after the failure of every earlier one, and nothing follows a success
AttemptedInOrder(calls) ==
    /\ \A k \in 1 .. (Len(calls) - 1) :
          /\ Strategy(calls[k][1]) <= Strategy(calls[k + 1][1])
          /\ calls[k][2] # "ok"
    /\ \A k \in DOMAIN calls :
          \A s \in 1 .. (Strategy(calls[k][1]) - 1) :
              \E j \in 1 .. (k - 1) :
                  Strategy(calls[j][1]) = s /\ calls[j][2] = "raise"

\* invocation i made a call in this step
CallsNow(i) == Len(coros'[i].calls) = Len(coros[i].calls) + 1

\* the status of task t becomes the given one in this step
Becomes(t, status) ==
    /\ t \in DOMAIN pending_tasks'
    /\ pending_tasks'[t].status = status
    /\ t \in DOMAIN pending_tasks => pending_tasks[t].status # status

\* C21: the send strategies are attempted in the order interaction POST,
\* command lookup, plain channel message, a later one only after every earlier
\* one failed; a status becomes waiting_for_response only in a step where a
\* strategy of that task returned without error, it becomes error only in a
\* step where the last strategy failed, and it is error right after an
\* invocation's three strategies all failed
C21_StrategiesInOrderUntilSuccess ==
    [][/\ \A i \in DOMAIN coros' : AttemptedInOrder(coros'[i].calls)
       /\ \A t \in TaskIds :
             /\ Becomes(t, "waiting_for_response") =>
                   \E i \in DOMAIN coros :
                       /\ coros[i].task_id = t
                       /\ CallsNow(i)
                       /\ Last(coros'[i].calls)[2] = "ok"
             /\ Becomes(t, "error") =>
                   \E i \in DOMAIN coros :
                       /\ coros[i].task_id = t
                       /\ CallsNow(i)
                       /\ \A s \in 1 .. 3 : StrategyFailed(coros'[i].calls, s)
       /\ \A i \in DOMAIN coros :
             (CallsNow(i) /\ \A s \in 1 .. 3 : StrategyFailed(coros'[i].calls, s))
                => pending_tasks'[coros[i].task_id].status = "error"]_vars

\* one invocation went through the three strategies and its last one was
\* accepted; in another all three failed and its task is in error
C21_Witness ==
    \E i, j \in DOMAIN coros :
        /\ coros[i].calls = << <<"interaction", "raise">>, <<"fetch_commands", "absent">>,
                               <<"send_command", "raise">>, <<"send_fallback", "ok">> >>
        /\ pending_tasks[coros[i].task_id].status = "waiting_for_response"
        /\ \A s \in 1 .. 3 : StrategyFailed(coros[j].calls, s)
        /\ pending_tasks[coros[j].task_id].status = "error"

(***************************************************************************)
(* Claims about the match decision, checked under SpecMatch                *)
(***************************************************************************)
\* the elements of a sequence
Range(seq) == {seq[k] : k \in DOMAIN seq}

\* the reference rule's keywords: the first prompt tokens, those of length
\* <= 3 left out
Keywords(prompt) ==
    {w \in Range(PromptWords(prompt)) : Len(w) > 3}

\* the reference rule: at least two distinct keywords are among the
\* message's lower-cased whitespace tokens, or there are at most two keywords
ReferenceMatch(prompt, m) ==
    \/ Cardinality(Keywords(prompt) \cap Range(Split(Lower(m.content)))) >= 2
    \/ Cardinality(Keywords(prompt)) <= 2

\* the file name ends in one of the four image extensions
HasImageExtension(filename) ==
    \E k \in DOMAIN IMAGE_EXTENSIONS :
        LET ext == IMAGE_EXTENSIONS[k]
        IN  /\ Len(filename) >= Len(ext)
            /\ SubSeq(Lower(filename), Len(filename) - Len(ext) + 1,
                      Len(filename)) = ext

\* right author and an attachment with an image extension
Eligible(m) ==
    /\ m.author = MIDJOURNEY_USER_ID
    /\ \E k \in DOMAIN m.attachments : HasImageExtension(m.attachments[k].filename)

\* C12: for an eligible message the watcher's decision is the reference
\* rule's; for the prompt "cat" every eligible message is accepted
C12_MatchIsReferenceRule ==
    \A i \in DOMAIN coros, k \in DOMAIN channel :
        (/\ coros[i].pc \in {"history", "sleep"}
         /\ k > coros[i].task_info.created_at.seq
         /\ Eligible(channel[k])) =>
            (Accepts(PromptWords(coros[i].task_info.prompt), channel[k])
                <=> ReferenceMatch(coros[i].task_info.prompt, channel[k]))

\* the urls of the attachments of m whose extension is an image extension
ExtensionUrls(m) ==
    LET keep(a) == HasImageExtension(a.filename)
    IN  [k \in DOMAIN SelectSeq(m.attachments, keep) |->
            SelectSeq(m.attachments, keep)[k].url]

\* C13: a task is completed only by a message of MIDJOURNEY_USER_ID with an
\* attachment whose extension is .png, .jpg, .jpeg or .webp, and the stored
\* image_urls are the urls of exactly those attachments
C13_CompletedOnlyByImageMessage ==
    \A t \in DOMAIN completed_tasks :
        LET m == channel[completed_tasks[t].discord_message_id]
        IN  /\ m.author = MIDJOURNEY_USER_ID
            /\ ExtensionUrls(m) # <<>>
            /\ completed_tasks[t].image_urls = ExtensionUrls(m)

(***************************************************************************)
(* Claims about rejected requests, checked under SpecReject                *)
(***************************************************************************)
\* C15: a POST /generate answered 400 or 503 leaves both dicts as they are,
\* schedules no coroutine and sends nothing, and a missing or empty prompt
\* is answered 400 whether or not the bridge is ready
C15_RejectedRequestChangesNothing ==
    [][/\ generate_resp'.code \in {400, 503} =>
             UNCHANGED <<pending_tasks, completed_tasks, coros, channel>>
       /\ \A body \in Bodies :
             (body.json /\ Falsy(body.prompt)) => GenerateCode(body) = 400
       /\ \A body \in Bodies :
             (/\ body.json
              /\ ~Falsy(body.prompt)
              /\ (~ready \/ ~DISCORD_AVAILABLE \/ discord_loop # "running"))
                => GenerateCode(body) = 503]_vars

\* a request is answered 503 after bot.run has returned, a task being stored
C15_Witness ==
    /\ generate_resp.code = 503
    /\ ready
    /\ discord_loop = "closed"
    /\ pending_tasks # <<>>

(***************************************************************************)
(* Claims about the timestamps, checked under SpecResubmit                 *)
(***************************************************************************)
\* datetime a is not later than datetime b
NotLater(a, b) ==
    \/ a.minute < b.minute
    \/ a.minute = b.minute /\ a.seq <= b.seq

\* C16: for every task id with a created_at in pending_tasks and a
\* completed_at in completed_tasks, completed_at >= created_at
C16_CompletedNotBeforeCreated ==
    \A t \in DOMAIN completed_tasks \cap DOMAIN pending_tasks :
        NotLater(pending_tasks[t].created_at, completed_tasks[t].completed_at)

(***************************************************************************)
(* Claims about a busy channel, checked under SpecFlood                    *)
(***************************************************************************)
\* after the record of coroutine i was made, Midjourney posted a message
\* that satisfies the match rule and carries an image
MatchPosted(i) ==
    \E k \in DOMAIN channel :
        /\ k > coros[i].task_info.created_at.seq
        /\ Accepts(PromptWords(coros[i].task_info.prompt), channel[k])

\* C17: when Midjourney posts a matching message with an image after the
\* task's created_at and inside the wait budget, the task is completed once
\* its watcher has finished, however many messages were posted before it
C17_MatchPostedThenCompleted ==
    \A i \in DOMAIN coros :
        (/\ coros[i].pc = "done"
         /\ coros[i].task_info.prompt.kind = "str"
         /\ MatchPosted(i))
            => /\ coros[i].task_id \in DOMAIN completed_tasks
               /\ pending_tasks[coros[i].task_id].status = "completed"

====
